---- MODULE Spec2Model ----
(***************************************************************************)
(* Signed update manifests: path normalisation, canonical serialisation,   *)
(* manifest building (create_manifest.py, build_manifest.py) and payload   *)
(* validation (validate_payload.py).                                       *)
(*                                                                         *)
(* Python strings and byte strings are sequences of one-character strings. *)
(* A Python dict is a sequence of <<key, value>> pairs with distinct keys, *)
(* in insertion order.                                                     *)
(***************************************************************************)
EXTENDS Integers, Sequences, FiniteSets, TLC

VARIABLES
    pc,                 \* the statement the running tool is at
    tool,               \* the script that was started
    \* create_manifest.py / build_manifest.py
    platform, payload, walk, in_version, private_key, built_files, built_signature,
    \* validate_payload.py: arguments and the files they name
    doc, zip, zip_opened, public_key, fail_on_extra,
    \* validate_payload.py: locals
    version, files, signature, archive_hashes, entries_read,
    normalized_manifest_files, missing, hash_mismatches, extra_files,
    \* outcome: the error raised or "OK", and the warning printed
    result, warning,
    \* calls of the pure functions
    norm_in, norm_out, canon_in, canon_out

builderVars == <<platform, payload, walk, in_version, private_key>>
builtVars == <<built_files, built_signature>>
argVars == <<doc, public_key, fail_on_extra>>
zipVars == <<zip, zip_opened>>
loadVars == <<version, files, signature>>
hashVars == <<archive_hashes, entries_read>>
reconcileVars == <<missing, hash_mismatches, extra_files>>
outVars == <<result, warning>>
pureVars == <<norm_in, norm_out, canon_in, canon_out>>

vars == <<pc, tool, builderVars, builtVars, argVars, zipVars, loadVars, hashVars,
          normalized_manifest_files, reconcileVars, outVars, pureVars>>

(***************************************************************************)
(* Bounds of the model.                                                    *)
(***************************************************************************)
MaxPathLen == 5
MaxManifest == 2
MaxArchive == 3
MaxPayload == 2
MaxDictLen == 3

BS == "\\"
QUOTE == "\""

(***************************************************************************)
(* Strings.                                                                *)
(***************************************************************************)
\* Code point of a character (Python compares str by code point).
ord(c) ==
    CASE c = " " -> 32
      [] c = QUOTE -> 34
      [] c = "," -> 44
      [] c = "." -> 46
      [] c = "/" -> 47
      [] c = "1" -> 49
      [] c = ":" -> 58
      [] c = "D" -> 68
      [] c = "E" -> 69
      [] c = BS -> 92
      [] c = "a" -> 97
      [] c = "b" -> 98
      [] c = "d" -> 100
      [] c = "e" -> 101
      [] c = "f" -> 102
      [] c = "i" -> 105
      [] c = "l" -> 108
      [] c = "n" -> 110
      [] c = "o" -> 111
      [] c = "r" -> 114
      [] c = "s" -> 115
      [] c = "v" -> 118
      [] c = "{" -> 123
      [] c = "}" -> 125
      [] c = "U+00E4" -> 228

\* str < str
RECURSIVE StrLess(_, _)
StrLess(s, t) ==
    IF t = <<>> THEN FALSE
    ELSE IF s = <<>> THEN TRUE
    ELSE IF ord(Head(s)) < ord(Head(t)) THEN TRUE
    ELSE IF ord(Head(s)) > ord(Head(t)) THEN FALSE
    ELSE StrLess(Tail(s), Tail(t))

\* str.replace(old, new) for a one-character old and new
RECURSIVE str_replace(_, _, _)
str_replace(s, old, new) ==
    IF s = <<>> THEN <<>>
    ELSE <<IF Head(s) = old THEN new ELSE Head(s)>> \o str_replace(Tail(s), old, new)

\* str.split(sep) for a one-character sep: always at least one part
RECURSIVE split_from(_, _, _)
split_from(s, sep, cur) ==
    IF s = <<>> THEN <<cur>>
    ELSE IF Head(s) = sep THEN <<cur>> \o split_from(Tail(s), sep, <<>>)
    ELSE split_from(Tail(s), sep, Append(cur, Head(s)))

str_split(s, sep) == split_from(s, sep, <<>>)

\* sep.join(parts)
RECURSIVE str_join(_, _)
str_join(sep, parts) ==
    IF parts = <<>> THEN <<>>
    ELSE IF Len(parts) = 1 THEN Head(parts)
    ELSE Head(parts) \o <<sep>> \o str_join(sep, Tail(parts))

\* str.lower() on the characters of a hexadecimal digest
lower_char(c) ==
    CASE c = "D" -> "d"
      [] c = "E" -> "e"
      [] OTHER -> c

str_lower(s) == [i \in 1..Len(s) |-> lower_char(s[i])]

\* str.strip() == "": only whitespace
IsBlank(s) == \A i \in 1..Len(s) : s[i] = " "

(***************************************************************************)
(* validate_payload.normalize_relative_path                                *)
(***************************************************************************)
\* The loop over posix.split("/"): raises at the first ".." part.
RECURSIVE normalize_loop(_, _)
normalize_loop(todo, parts) ==
    IF todo = <<>> THEN [ok |-> TRUE, path |-> str_join("/", parts)]
    ELSE IF Head(todo) = <<>> \/ Head(todo) = <<".">>
         THEN normalize_loop(Tail(todo), parts)
    ELSE IF Head(todo) = <<".", ".">>
         THEN [ok |-> FALSE, path |-> <<>>]
    ELSE normalize_loop(Tail(todo), Append(parts, Head(todo)))

normalize_relative_path_dotdot_kept(path) ==
    LET posix == str_replace(path, BS, "/")
        keep == SelectSeq(str_split(posix, "/"), LAMBDA p : p # <<>> /\ p # <<".">>)
    IN [ok |-> TRUE, path |-> str_join("/", keep)]

normalize_relative_path_backslash_kept(path) ==
    normalize_loop(str_split(path, "/"), <<>>)

normalize_relative_path(path) ==
    LET posix == str_replace(path, BS, "/")
    IN normalize_loop(str_split(posix, "/"), <<>>)

(***************************************************************************)
(* Python dicts (insertion ordered).                                       *)
(***************************************************************************)
dict_keys(d) == {d[i][1] : i \in 1..Len(d)}

dict_key_seq(d) == [i \in 1..Len(d) |-> d[i][1]]

dict_get(d, k) == d[CHOOSE i \in 1..Len(d) : d[i][1] = k][2]

\* d[k] = v: an existing key keeps its position, a new key goes last
dict_set(d, k, v) ==
    IF k \in dict_keys(d)
    THEN [i \in 1..Len(d) |-> IF d[i][1] = k THEN <<k, v>> ELSE d[i]]
    ELSE Append(d, <<k, v>>)

IsDict(d) == \A i, j \in 1..Len(d) : d[i][1] = d[j][1] => i = j

\* sorted(d.items()) by key
RECURSIVE sorted_items(_)
sorted_items(d) ==
    IF d = <<>> THEN <<>>
    ELSE LET m == CHOOSE i \in 1..Len(d) :
                     \A j \in 1..Len(d) : j # i => StrLess(d[i][1], d[j][1])
         IN <<d[m]>> \o sorted_items(SelectSeq(d, LAMBDA e : e # d[m]))

(***************************************************************************)
(* json.dumps(obj, sort_keys, separators, ensure_ascii).encode("utf-8")    *)
(* for obj = {str: str | {str: str}}.                                      *)
(***************************************************************************)
JStr(s) == [t |-> "str", v |-> s]
JObj(d) == [t |-> "obj", v |-> d]

NONASCII == "U+00E4"

\* one character of a JSON string literal
json_escape_char(c, ensure_ascii) ==
    IF c = QUOTE THEN <<BS, QUOTE>>
    ELSE IF c = BS THEN <<BS, BS>>
    ELSE IF c = NONASCII /\ ensure_ascii THEN <<BS, "u", "0", "0", "e", "4">>
    ELSE <<c>>

RECURSIVE json_escape(_, _)
json_escape(s, ensure_ascii) ==
    IF s = <<>> THEN <<>>
    ELSE json_escape_char(Head(s), ensure_ascii) \o json_escape(Tail(s), ensure_ascii)

json_string(s, ensure_ascii) == <<QUOTE>> \o json_escape(s, ensure_ascii) \o <<QUOTE>>

\* item_sep.join(members)
RECURSIVE json_join(_, _)
json_join(members, item_sep) ==
    IF members = <<>> THEN <<>>
    ELSE IF Len(members) = 1 THEN Head(members)
    ELSE Head(members) \o item_sep \o json_join(Tail(members), item_sep)

\* "{" members "}"
json_object(members, item_sep) == <<"{">> \o json_join(members, item_sep) \o <<"}">>

\* the items in the order json.dumps writes them
json_items(d, sort_keys) == IF sort_keys THEN sorted_items(d) ELSE d

\* a {str: str} dict
json_str_dict(d, sort_keys, item_sep, key_sep, ensure_ascii) ==
    LET items == json_items(d, sort_keys)
    IN json_object([i \in 1..Len(items) |->
                       json_string(items[i][1], ensure_ascii) \o key_sep
                           \o json_string(items[i][2], ensure_ascii)],
                   item_sep)

\* a str or a {str: str} dict
json_value(val, sort_keys, item_sep, key_sep, ensure_ascii) ==
    IF val.t = "str" THEN json_string(val.v, ensure_ascii)
    ELSE json_str_dict(val.v, sort_keys, item_sep, key_sep, ensure_ascii)

json_dumps(obj, sort_keys, item_sep, key_sep, ensure_ascii) ==
    LET items == json_items(obj, sort_keys)
    IN json_object([i \in 1..Len(items) |->
                       json_string(items[i][1], ensure_ascii) \o key_sep
                           \o json_value(items[i][2], sort_keys, item_sep, key_sep,
                                         ensure_ascii)],
                   item_sep)

\* str.encode("utf-8"): one byte per ASCII character, two for U+00E4
RECURSIVE utf8_encode(_)
utf8_encode(s) ==
    IF s = <<>> THEN <<>>
    ELSE (IF Head(s) = NONASCII THEN <<"0xC3", "0xA4">> ELSE <<Head(s)>>)
         \o utf8_encode(Tail(s))

\* validate_payload.canonical_json
validate_canonical_json_unsorted(obj) ==
    utf8_encode(json_dumps(obj, FALSE, <<",">>, <<":">>, FALSE))

validate_canonical_json(obj) ==
    utf8_encode(json_dumps(obj, TRUE, <<",">>, <<":">>, FALSE))

\* create_manifest.canonical_json
create_canonical_json_spaced(obj) ==
    utf8_encode(json_dumps(obj, TRUE, <<",", " ">>, <<":", " ">>, FALSE))

create_canonical_json(obj) ==
    utf8_encode(json_dumps(obj, TRUE, <<",">>, <<":">>, FALSE))

\* build_manifest.canonical_json
build_canonical_json(obj) ==
    utf8_encode(json_dumps(obj, TRUE, <<",">>, <<":">>, FALSE))

KEY_VERSION == <<"v", "e", "r", "s", "i", "o", "n">>
KEY_FILES == <<"f", "i", "l", "e", "s">>

\* {"version": version, "files": files}
UnsignedManifest(v, f) == <<<<KEY_VERSION, JStr(v)>>, <<KEY_FILES, JObj(f)>>>>

(***************************************************************************)
(* Collaborators: SHA-256, RSA PKCS#1 v1.5 and base64.                     *)
(***************************************************************************)
\* hashlib.sha256(content).hexdigest(): lower-case hex, injective on contents
sha256_hex(content) ==
    CASE content = "x" -> <<"d">>
      [] content = "y" -> <<"e">>

\* private_key.sign(message, PKCS1v15, SHA256): deterministic
rsa_sign(key, message) == [key |-> key, msg |-> message]

\* public_key.verify(signature, payload, PKCS1v15, SHA256) does not raise
rsa_verify(key, sig, message) == sig.key = key /\ sig.msg = message

GARBAGE_SIG == [key |-> "none", msg |-> <<>>]

\* base64.b64encode(sig).decode()
b64encode(sig) == [enc |-> "base64", raw |-> sig]

NOT_BASE64 == [enc |-> "text", raw |-> GARBAGE_SIG]

\* base64.b64decode(text, validate=True)
b64decode(text) ==
    IF text.enc = "base64" THEN [ok |-> TRUE, raw |-> text.raw]
    ELSE [ok |-> FALSE, raw |-> GARBAGE_SIG]

(***************************************************************************)
(* The manifest document as json.loads returns it: a member is absent, a   *)
(* string, an object or some other JSON value.                             *)
(***************************************************************************)
ABSENT == [t |-> "absent", v |-> <<>>]
JNUM == [t |-> "num", v |-> <<>>]

\* {k: JStr(v)} for a dict of strings
tagged(d) == [i \in 1..Len(d) |-> <<d[i][1], JStr(d[i][2])>>]

(***************************************************************************)
(* validate_payload.load_manifest                                          *)
(***************************************************************************)
NO_SIG == GARBAGE_SIG

load_failed(err) ==
    [ok |-> FALSE, err |-> err, version |-> <<>>, files |-> <<>>, signature |-> NO_SIG]

load_manifest(data) ==
    IF data.version.t # "str" \/ IsBlank(data.version.v) THEN load_failed("E_VERSION")
    ELSE IF data.files.t # "obj" THEN load_failed("E_FILES")
    ELSE IF data.signature.t # "str" THEN load_failed("E_NO_SIGNATURE")
    ELSE IF ~b64decode(data.signature.v).ok THEN load_failed("E_BASE64")
    ELSE IF \E i \in 1..Len(data.files.v) : data.files.v[i][2].t # "str"
         THEN load_failed("E_FILE_TYPES")
    ELSE [ok |-> TRUE, err |-> "",
          version |-> data.version.v,
          files |-> [i \in 1..Len(data.files.v) |->
                        <<data.files.v[i][1], data.files.v[i][2].v>>],
          signature |-> b64decode(data.signature.v).raw]

(***************************************************************************)
(* validate_payload.verify_signature: TRUE iff verify() does not raise.    *)
(***************************************************************************)
verify_signature_any_key(ver, fls, sig, key) ==
    sig.msg = validate_canonical_json(UnsignedManifest(ver, fls))

verify_signature(ver, fls, sig, key) ==
    LET message == validate_canonical_json(UnsignedManifest(ver, fls))
    IN rsa_verify(key, sig, message)

(***************************************************************************)
(* validate_payload.hash_zip_members                                       *)
(***************************************************************************)
\* ZipInfo.is_dir(): filename[-1] == '/', which raises IndexError for an entry
\* whose name is empty
is_dir(info) ==
    IF info.filename = <<>> THEN [ok |-> FALSE, dir |-> FALSE]
    ELSE [ok |-> TRUE, dir |-> info.filename[Len(info.filename)] = "/"]

\* The loop over archive.infolist(); read counts the entries opened.  An
\* exception leaves the loop: ValueError of the normalizer (E_PATH) or of the
\* duplicate test (E_DUPLICATE), IndexError of is_dir (E_INDEX).
RECURSIVE hash_zip_loop(_, _, _)
hash_zip_loop(infos, hashes, read) ==
    IF infos = <<>> THEN [ok |-> TRUE, err |-> "", hashes |-> hashes, read |-> read]
    ELSE LET info == Head(infos)
             normalized == normalize_relative_path(info.filename)
         IN IF ~is_dir(info).ok
                 THEN [ok |-> FALSE, err |-> "E_INDEX", hashes |-> hashes, read |-> read]
            ELSE IF is_dir(info).dir THEN hash_zip_loop(Tail(infos), hashes, read)
            ELSE IF ~normalized.ok
                 THEN [ok |-> FALSE, err |-> "E_PATH", hashes |-> hashes, read |-> read]
            ELSE IF normalized.path \in dict_keys(hashes)
                 THEN [ok |-> FALSE, err |-> "E_DUPLICATE", hashes |-> hashes, read |-> read]
            ELSE hash_zip_loop(Tail(infos),
                               dict_set(hashes, normalized.path, sha256_hex(info.content)),
                               read + 1)

RECURSIVE hash_zip_loop_overwrite(_, _, _)
hash_zip_loop_overwrite(infos, hashes, read) ==
    IF infos = <<>> THEN [ok |-> TRUE, err |-> "", hashes |-> hashes, read |-> read]
    ELSE LET info == Head(infos)
             normalized == normalize_relative_path(info.filename)
         IN IF ~is_dir(info).ok
                 THEN [ok |-> FALSE, err |-> "E_INDEX", hashes |-> hashes, read |-> read]
            ELSE IF is_dir(info).dir THEN hash_zip_loop_overwrite(Tail(infos), hashes, read)
            ELSE IF ~normalized.ok
                 THEN [ok |-> FALSE, err |-> "E_PATH", hashes |-> hashes, read |-> read]
            ELSE hash_zip_loop_overwrite(Tail(infos),
                               dict_set(hashes, normalized.path, sha256_hex(info.content)),
                               read + 1)

hash_zip_members_overwrite(infos) == hash_zip_loop_overwrite(infos, <<>>, 0)

hash_zip_members(infos) == hash_zip_loop(infos, <<>>, 0)

(***************************************************************************)
(* validate_payload.validate_payload, lines 159-186                        *)
(***************************************************************************)
\* normalized_manifest_files: raises at the first ".." key
RECURSIVE normalize_manifest_files(_, _)
normalize_manifest_files(items, acc) ==
    IF items = <<>> THEN [ok |-> TRUE, files |-> acc]
    ELSE LET normalized == normalize_relative_path(items[1][1])
         IN IF ~normalized.ok THEN [ok |-> FALSE, files |-> acc]
            ELSE normalize_manifest_files(
                     Tail(items), dict_set(acc, normalized.path, str_lower(items[1][2])))

\* missing, in the order of normalized_manifest_files
find_missing(nmf, hashes) ==
    dict_key_seq(SelectSeq(nmf, LAMBDA e : e[1] \notin dict_keys(hashes)))

\* hash_mismatches, in the order of normalized_manifest_files
find_mismatches(nmf, hashes) ==
    dict_key_seq(SelectSeq(nmf, LAMBDA e :
        /\ e[1] \in dict_keys(hashes)
        /\ str_lower(dict_get(hashes, e[1])) # e[2]))

\* sorted(S) for a set of strings
RECURSIVE sorted_strs(_)
sorted_strs(S) ==
    IF S = {} THEN <<>>
    ELSE LET m == CHOOSE x \in S : \A y \in S : y # x => StrLess(x, y)
         IN <<m>> \o sorted_strs(S \ {m})

find_extra(nmf, hashes) == sorted_strs(dict_keys(hashes) \ dict_keys(nmf))

\* the raise statements of lines 176-181, in order
reconcile_verdict_lenient(miss, mism, extra, strict) ==
    IF miss # <<>> THEN "E_MISSING"
    ELSE IF mism # <<>> THEN "E_MISMATCH"
    ELSE "OK"

reconcile_verdict_mismatch_first(miss, mism, extra, strict) ==
    IF mism # <<>> THEN "E_MISMATCH"
    ELSE IF miss # <<>> THEN "E_MISSING"
    ELSE IF strict /\ extra # <<>> THEN "E_EXTRA"
    ELSE "OK"

reconcile_verdict(miss, mism, extra, strict) ==
    IF miss # <<>> THEN "E_MISSING"
    ELSE IF mism # <<>> THEN "E_MISMATCH"
    ELSE IF strict /\ extra # <<>> THEN "E_EXTRA"
    ELSE "OK"

(***************************************************************************)
(* Input sets.                                                             *)
(***************************************************************************)
\* dicts of at most n entries
Dicts(keys, vals, n) ==
    UNION {{d \in [1..k -> keys \X vals] : IsDict(d)} : k \in 0..n}

\* sequences of at most n elements
SeqsUpTo(S, n) == UNION {[1..k -> S] : k \in 0..n}

\* enumerations of a finite set
Perms(S) == {p \in [1..Cardinality(S) -> S] : \A i, j \in 1..Cardinality(S) : p[i] = p[j] => i = j}

P_AB == <<"a", "/", "b">>
P_A_BS_B == <<"a", BS, "b">>
P_B == <<"b">>
P_UP_A == <<".", ".", "/", "a">>
P_UP_DIR == <<".", ".", "/">>

D_UPPER == <<"D">>
D_OTHER == <<"e">>

\* manifest entries: a/b with the upper-case digest of x or the digest of y,
\* a\b (the same path as a/b), b, and a key with a ".." segment
ManifestEntries ==
    {<<P_AB, D_UPPER>>, <<P_AB, D_OTHER>>, <<P_A_BS_B, D_UPPER>>, <<P_B, D_UPPER>>,
     <<P_UP_A, D_UPPER>>}
Manifests == {d \in SeqsUpTo(ManifestEntries, MaxManifest) : IsDict(d)}

ArchiveEntries ==
    {[filename |-> P_AB, content |-> "x"], [filename |-> P_AB, content |-> "y"],
     [filename |-> P_A_BS_B, content |-> "x"], [filename |-> P_B, content |-> "x"],
     [filename |-> P_UP_A, content |-> "x"], [filename |-> P_UP_DIR, content |-> "x"],
     [filename |-> <<>>, content |-> "x"]}
Archives == SeqsUpTo(ArchiveEntries, MaxArchive)

Keys == {"k1", "k2"}
SIGNER == "k1"
V1 == <<"1">>
V2 == <<"1", "1">>

\* the signed manifest of {version, files}, as read back by json.loads
SignedDoc(v, f, sig) ==
    [version |-> JStr(v), files |-> JObj(tagged(f)), signature |-> JStr(b64encode(sig))]

Defects ==
    {"none", "version_absent", "version_number", "version_empty", "version_blank",
     "files_absent", "files_number", "value_number", "signature_absent",
     "signature_number", "signature_text", "signature_garbage"}

Damage(d, defect) ==
    CASE defect = "version_absent" -> [d EXCEPT !.version = ABSENT]
      [] defect = "version_number" -> [d EXCEPT !.version = JNUM]
      [] defect = "version_empty" -> [d EXCEPT !.version = JStr(<<>>)]
      [] defect = "version_blank" -> [d EXCEPT !.version = JStr(<<" ">>)]
      [] defect = "files_absent" -> [d EXCEPT !.files = ABSENT]
      [] defect = "files_number" -> [d EXCEPT !.files = JNUM]
      [] defect = "value_number" ->
            IF d.files.v = <<>> THEN d
            ELSE [d EXCEPT !.files.v[1] = <<d.files.v[1][1], JNUM>>]
      [] defect = "signature_absent" -> [d EXCEPT !.signature = ABSENT]
      [] defect = "signature_number" -> [d EXCEPT !.signature = JNUM]
      [] defect = "signature_text" -> [d EXCEPT !.signature = JStr(NOT_BASE64)]
      [] defect = "signature_garbage" -> [d EXCEPT !.signature = JStr(b64encode(GARBAGE_SIG))]
      [] OTHER -> d

\* manifest documents: signed by SIGNER over the document's own content or
\* over the same files under another version, then possibly damaged
Docs ==
    {Damage(SignedDoc(V1, f, rsa_sign(SIGNER, create_canonical_json(UnsignedManifest(sv, f)))),
            defect) : f \in Manifests, sv \in {V1, V2}, defect \in Defects}

(***************************************************************************)
(* Idle values of the variables a tool does not use.                       *)
(***************************************************************************)
NO_DOC == [version |-> ABSENT, files |-> ABSENT, signature |-> ABSENT]
NO_NORM == [ok |-> FALSE, path |-> <<>>]

BuilderIdle ==
    /\ platform = "posix" /\ payload = <<>> /\ walk = <<>> /\ in_version = <<>>
    /\ private_key = "none" /\ built_files = <<>> /\ built_signature = NO_SIG

ValidatorLocalsInit ==
    /\ zip = <<>> /\ zip_opened = FALSE
    /\ version = <<>> /\ files = <<>> /\ signature = NO_SIG
    /\ archive_hashes = <<>> /\ entries_read = 0
    /\ normalized_manifest_files = <<>>
    /\ missing = <<>> /\ hash_mismatches = <<>> /\ extra_files = <<>>
    /\ result = "RUNNING" /\ warning = <<>>

PureIdle ==
    /\ norm_in = <<>> /\ norm_out = NO_NORM /\ canon_in = <<>> /\ canon_out = <<>>

(***************************************************************************)
(* validate_payload.validate_payload, one action per stage.                *)
(***************************************************************************)
Fail(err) == /\ result' = err /\ warning' = <<>> /\ pc' = "done"

\* line 150
LoadManifest ==
    /\ pc = "load_manifest"
    /\ LET m == load_manifest(doc)
       IN /\ version' = m.version /\ files' = m.files /\ signature' = m.signature
          /\ IF m.ok THEN pc' = "verify_signature" /\ UNCHANGED outVars
             ELSE Fail(m.err)
    /\ UNCHANGED <<tool, builderVars, builtVars, argVars, zipVars, hashVars,
                   normalized_manifest_files, reconcileVars, pureVars>>

\* lines 152-155
VerifySignature ==
    /\ pc = "verify_signature"
    /\ IF verify_signature(version, files, signature, public_key)
       THEN pc' = "hash_zip_members" /\ UNCHANGED outVars
       ELSE Fail("E_SIGNATURE")
    /\ UNCHANGED <<tool, builderVars, builtVars, argVars, zipVars, loadVars, hashVars,
                   normalized_manifest_files, reconcileVars, pureVars>>

\* line 157: the archive at zip_path is opened and read here
HashZipMembers(infos) ==
    /\ pc = "hash_zip_members"
    /\ zip' = infos /\ zip_opened' = TRUE
    /\ LET h == hash_zip_members(infos)
       IN /\ archive_hashes' = h.hashes /\ entries_read' = h.read
          /\ IF h.ok THEN pc' = "normalize_manifest" /\ UNCHANGED outVars
             ELSE Fail(h.err)
    /\ UNCHANGED <<tool, builderVars, builtVars, argVars, loadVars,
                   normalized_manifest_files, reconcileVars, pureVars>>

\* lines 159-162
NormalizeManifest ==
    /\ pc = "normalize_manifest"
    /\ LET n == normalize_manifest_files(files, <<>>)
       IN /\ normalized_manifest_files' = n.files
          /\ IF n.ok THEN pc' = "reconcile" /\ UNCHANGED outVars
             ELSE Fail("E_PATH")
    /\ UNCHANGED <<tool, builderVars, builtVars, argVars, zipVars, loadVars, hashVars,
                   reconcileVars, pureVars>>

\* lines 164-186
Reconcile ==
    /\ pc = "reconcile"
    /\ LET miss == find_missing(normalized_manifest_files, archive_hashes)
           mism == find_mismatches(normalized_manifest_files, archive_hashes)
           extra == find_extra(normalized_manifest_files, archive_hashes)
           verdict == reconcile_verdict(miss, mism, extra, fail_on_extra)
       IN /\ missing' = miss /\ hash_mismatches' = mism /\ extra_files' = extra
          /\ result' = verdict
          /\ warning' = IF verdict = "OK" THEN extra ELSE <<>>
    /\ pc' = "done"
    /\ UNCHANGED <<tool, builderVars, builtVars, argVars, zipVars, loadVars, hashVars,
                   normalized_manifest_files, pureVars>>

\* python validate_payload.py --zip .. --manifest .. --public-key .. [--fail-on-extra]
Init ==
    /\ pc = "load_manifest" /\ tool = "validate_payload"
    /\ doc \in Docs /\ public_key \in Keys /\ fail_on_extra \in BOOLEAN
    /\ BuilderIdle /\ ValidatorLocalsInit /\ PureIdle

ReadZip == \E infos \in Archives : HashZipMembers(infos)

Next ==
    \/ LoadManifest
    \/ VerifySignature
    \/ ReadZip
    \/ NormalizeManifest
    \/ Reconcile

Spec == Init /\ [][Next]_vars

(***************************************************************************)
(* Properties of validate_payload, stated on its inputs: the manifest      *)
(* document doc, the archive zip, public_key and fail_on_extra.            *)
(***************************************************************************)
IsSep(c) == c = "/" \/ c = BS

\* some segment of p, after replacing "\" by "/" and splitting on "/", is ".."
HasDotDot(p) ==
    \E i \in 1..Len(p) - 1 :
        /\ p[i] = "." /\ p[i + 1] = "."
        /\ (i = 1 \/ IsSep(p[i - 1]))
        /\ (i + 1 = Len(p) \/ IsSep(p[i + 2]))

\* the document has the structure load_manifest demands
Structured ==
    /\ doc.version.t = "str" /\ ~IsBlank(doc.version.v)
    /\ doc.files.t = "obj"
    /\ doc.signature.t = "str" /\ doc.signature.v.enc = "base64"
    /\ \A i \in 1..Len(doc.files.v) : doc.files.v[i][2].t = "str"

\* the files map of a structured document
DocFiles == [i \in 1..Len(doc.files.v) |-> <<doc.files.v[i][1], doc.files.v[i][2].v>>]

\* the signature is the one the holder of public_key's private key makes of
\* the document's {version, files} with the builder's serializer
SignatureValid ==
    /\ Structured
    /\ doc.signature.v.raw =
           rsa_sign(public_key, create_canonical_json(UnsignedManifest(doc.version.v, DocFiles)))

\* the entry has no name: is_dir fails on it
ArchiveUnnamedAt(i) == zip[i].filename = <<>>

NonDir(i) == ~ArchiveUnnamedAt(i) /\ zip[i].filename[Len(zip[i].filename)] # "/"

NormPath(p) == normalize_relative_path(p).path

ArchiveTraversalAt(i) == NonDir(i) /\ HasDotDot(zip[i].filename)

ArchiveDuplicateAt(i) ==
    /\ NonDir(i) /\ ~HasDotDot(zip[i].filename)
    /\ \E j \in 1..(i - 1) :
           /\ NonDir(j) /\ ~HasDotDot(zip[j].filename)
           /\ NormPath(zip[j].filename) = NormPath(zip[i].filename)

ArchiveBadAt(i) == ArchiveUnnamedAt(i) \/ ArchiveTraversalAt(i) \/ ArchiveDuplicateAt(i)

ArchiveUnnamed == \E i \in 1..Len(zip) : ArchiveUnnamedAt(i)
ArchiveTraversal == \E i \in 1..Len(zip) : ArchiveTraversalAt(i)
ArchiveDuplicate == \E i \in 1..Len(zip) : ArchiveDuplicateAt(i)
ArchiveBad == \E i \in 1..Len(zip) : ArchiveBadAt(i)

\* the error of the first archive entry that has one
FirstArchiveError ==
    LET i == CHOOSE k \in 1..Len(zip) :
                 ArchiveBadAt(k) /\ \A j \in 1..(k - 1) : ~ArchiveBadAt(j)
    IN IF ArchiveUnnamedAt(i) THEN "E_INDEX"
       ELSE IF ArchiveTraversalAt(i) THEN "E_PATH"
       ELSE "E_DUPLICATE"

ManifestTraversal == \E i \in 1..Len(DocFiles) : HasDotDot(DocFiles[i][1])

ManifestPaths == {NormPath(DocFiles[i][1]) : i \in 1..Len(DocFiles)}
ArchivePaths == {NormPath(zip[i].filename) : i \in {k \in 1..Len(zip) : NonDir(k)}}

MissingSet == ManifestPaths \ ArchivePaths
ExtraSet == ArchivePaths \ ManifestPaths

\* the digest of the archive entry at path p (one entry, absent duplicates)
ArchiveDigest(p) ==
    sha256_hex(zip[CHOOSE i \in 1..Len(zip) : NonDir(i) /\ NormPath(zip[i].filename) = p].content)

\* the digest the manifest declares for path p: that of the last key
\* normalizing to p, lower-cased
DeclaredDigest(p) ==
    LET last == CHOOSE i \in 1..Len(DocFiles) :
                    /\ NormPath(DocFiles[i][1]) = p
                    /\ \A j \in (i + 1)..Len(DocFiles) : NormPath(DocFiles[j][1]) # p
    IN str_lower(DocFiles[last][2])

MismatchSet == {p \in ManifestPaths \cap ArchivePaths : DeclaredDigest(p) # ArchiveDigest(p)}

SeqToSet(q) == {q[i] : i \in 1..Len(q)}

\* the archive was read and every stage before reconcile passes
ReachesReconcile ==
    zip_opened /\ ~ArchiveBad /\ ~ManifestTraversal /\ SignatureValid

\* C1: validation succeeds only if the signature verified, nothing is missing,
\* nothing is mismatched, and there is no extra archive path or strict mode is off
C1_SuccessOnlyIf ==
    result = "OK" =>
        /\ SignatureValid /\ zip_opened
        /\ MissingSet = {} /\ MismatchSet = {}
        /\ (ExtraSet = {} \/ ~fail_on_extra)

C1_Witness ==
    /\ result = "OK" /\ ~fail_on_extra /\ ExtraSet # {} /\ Len(DocFiles) >= 1

ManifestKeyTraversal ==
    doc.files.t = "obj" /\ \E i \in 1..Len(doc.files.v) : HasDotDot(doc.files.v[i][1])

\* C2 as claimed, for a manifest that parses and whose signature verifies: a
\* ".." segment in a manifest key or in the name of a non-directory archive
\* entry never lets validation succeed and always ends it with the path error
C2_Original ==
    ((ManifestKeyTraversal \/ (zip_opened /\ ArchiveTraversal)) /\ SignatureValid)
        => /\ result # "OK"
           /\ pc = "done" => result = "E_PATH"

\* C2 amended: with a ".." segment in a manifest key or in the name of a
\* non-directory archive entry validation never succeeds, and it ends with the
\* path error unless an earlier check fails first: the structure or signature
\* check, or an archive entry before it (for a manifest key: any archive entry)
\* that is a duplicate or has an empty name
C2_TraversalRejected ==
    /\ ManifestKeyTraversal
           => /\ result # "OK"
              /\ (pc = "done" /\ ~ArchiveDuplicate /\ ~ArchiveUnnamed /\ SignatureValid)
                     => result = "E_PATH"
    /\ (zip_opened /\ ArchiveTraversal)
           => /\ result # "OK"
              /\ pc = "done"
              /\ result = FirstArchiveError
              /\ (~ArchiveDuplicate /\ ~ArchiveUnnamed) => result = "E_PATH"

C2_Witness ==
    /\ pc = "done" /\ result = "E_PATH" /\ zip_opened
    /\ ~ArchiveBad /\ ManifestTraversal

\* C5: with a verified signature and nothing missing or mismatched, an archive
\* path absent from the manifest fails validation in strict mode and otherwise
\* lets it succeed with exactly the extra paths in the warning
C5_ExtraPolicy ==
    (pc = "done" /\ ReachesReconcile /\ MissingSet = {} /\ MismatchSet = {} /\ ExtraSet # {})
        => IF fail_on_extra THEN result = "E_EXTRA"
           ELSE result = "OK" /\ SeqToSet(warning) = ExtraSet

C5_Witness ==
    /\ pc = "done" /\ ReachesReconcile /\ MissingSet = {} /\ MismatchSet = {}
    /\ ExtraSet # {} /\ fail_on_extra /\ result = "E_EXTRA" /\ ManifestPaths # {}

\* C6 as claimed: two non-directory entries normalizing to the same path always
\* end validation with the duplicate-entry error
C6_Original ==
    (zip_opened /\ ArchiveDuplicate) => result = "E_DUPLICATE"

\* C6 amended: with two non-directory entries normalizing to the same path
\* validation never succeeds and hash_zip_members fails, with the duplicate-entry
\* error unless an entry with a ".." segment or with an empty name precedes the
\* duplicate (then with that entry's error); when hashing succeeds the archive
\* map holds exactly one digest per non-directory entry, that of the entry
C6_DuplicateRejected ==
    /\ (zip_opened /\ ArchiveDuplicate)
           => /\ pc = "done" /\ result = FirstArchiveError
              /\ normalized_manifest_files = <<>>
              /\ (~ArchiveTraversal /\ ~ArchiveUnnamed) => result = "E_DUPLICATE"
    /\ (zip_opened /\ (pc \in {"normalize_manifest", "reconcile"} \/ result = "OK"))
           => /\ Len(archive_hashes) = Cardinality({i \in 1..Len(zip) : NonDir(i)})
              /\ IsDict(archive_hashes)
              /\ \A i \in 1..Len(zip) :
                     NonDir(i) =>
                         /\ NormPath(zip[i].filename) \in dict_keys(archive_hashes)
                         /\ dict_get(archive_hashes, NormPath(zip[i].filename))
                                = sha256_hex(zip[i].content)

C6_Witness ==
    /\ zip_opened /\ ArchiveDuplicate /\ ~ArchiveTraversal /\ result = "E_DUPLICATE"
    /\ \E i, j \in 1..Len(zip) : zip[i].filename = P_AB /\ zip[j].filename = P_A_BS_B

\* C4 as claimed: with a verified signature, an archive without traversal or
\* duplicate entries (and manifest keys that normalize), every manifest entry
\* whose path is absent from the archive, or whose lower-cased digest differs
\* from the archive's, makes validation fail with an integrity error in either
\* mode, and a missing-file failure names every missing path
C4_EveryEntryChecked ==
    (pc = "done" /\ ReachesReconcile)
        => /\ \A i \in 1..Len(DocFiles) :
                  (\/ NormPath(DocFiles[i][1]) \notin ArchivePaths
                   \/ ArchiveDigest(NormPath(DocFiles[i][1])) # str_lower(DocFiles[i][2]))
                      => result \in {"E_MISSING", "E_MISMATCH"}
           /\ result = "E_MISSING" => SeqToSet(missing) = MissingSet

(***************************************************************************)
(* C10: the stages of validate_payload.                                    *)
(***************************************************************************)
StructuralErrors == {"E_VERSION", "E_FILES", "E_NO_SIGNATURE", "E_BASE64", "E_FILE_TYPES"}

\* the verdict of reconcile, missing before mismatched before extra
ExpectedReconcile ==
    IF MissingSet # {} THEN "E_MISSING"
    ELSE IF MismatchSet # {} THEN "E_MISMATCH"
    ELSE IF ExtraSet # {} /\ fail_on_extra THEN "E_EXTRA"
    ELSE "OK"

\* the non-directory entries before the first bad one
EntriesBeforeFirstError ==
    {i \in 1..Len(zip) :
        /\ NonDir(i)
        /\ \A j \in 1..i : ~ArchiveBadAt(j)}

\* where the run is, and how it ended, as the inputs decide it
StageOutcome ==
    LET verified == SignatureValid
        bad == zip_opened /\ ArchiveBad
    IN /\ pc = "done" =>
             IF ~Structured THEN result \in StructuralErrors
             ELSE IF ~verified THEN result = "E_SIGNATURE"
             ELSE IF bad THEN result = FirstArchiveError
             ELSE IF ManifestTraversal THEN result = "E_PATH"
             ELSE result = ExpectedReconcile
       /\ pc # "done" => result = "RUNNING"
       \* each stage starts only when the stages before it passed
       /\ pc = "load_manifest" => ~zip_opened
       /\ pc = "verify_signature" => Structured /\ ~zip_opened
       /\ pc = "hash_zip_members" => verified /\ ~zip_opened
       /\ pc = "normalize_manifest" => verified /\ zip_opened /\ ~bad
       /\ pc = "reconcile" => verified /\ zip_opened /\ ~bad /\ ~ManifestTraversal
       \* the archive is read only after parsing and verification passed
       /\ (zip_opened \/ entries_read > 0 \/ archive_hashes # <<>>) => verified
       /\ (pc = "done" /\ verified) => zip_opened
       \* a failed stage ends the run: later stages have left no trace
       /\ zip_opened => entries_read = Cardinality(EntriesBeforeFirstError)
       /\ ~zip_opened => entries_read = 0 /\ archive_hashes = <<>>
       /\ (pc \in {"load_manifest", "verify_signature", "hash_zip_members", "normalize_manifest"}
              \/ ~verified \/ bad)
             => normalized_manifest_files = <<>>
       /\ (pc # "done" \/ ~verified \/ bad \/ ManifestTraversal)
             => missing = <<>> /\ hash_mismatches = <<>> /\ extra_files = <<>>

\* C10: the stages run in the order parse, signature, archive, manifest paths,
\* reconcile; the run ends at the first stage that fails, with that stage's
\* error; no archive entry is read unless parsing and verification passed
C10_StagesInOrder == StageOutcome

C10_Witness ==
    /\ pc = "done" /\ ReachesReconcile /\ result = "E_MISSING"
    /\ MismatchSet # {} /\ fail_on_extra

(***************************************************************************)
(* Calls of normalize_relative_path on every short path.                   *)
(***************************************************************************)
PathChars == {"a", "b", ".", "/", BS}
PathStrings == SeqsUpTo(PathChars, MaxPathLen)

ValidatorIdle ==
    /\ doc = NO_DOC /\ public_key = "none" /\ fail_on_extra = FALSE
    /\ ValidatorLocalsInit

InitNorm ==
    /\ pc = "normalize_relative_path" /\ tool = "normalize_relative_path"
    /\ norm_in \in PathStrings /\ norm_out = NO_NORM
    /\ canon_in = <<>> /\ canon_out = <<>>
    /\ BuilderIdle /\ ValidatorIdle

NormalizeCall ==
    /\ pc = "normalize_relative_path"
    /\ norm_out' = normalize_relative_path(norm_in)
    /\ pc' = "done"
    /\ UNCHANGED <<tool, builderVars, builtVars, argVars, zipVars, loadVars, hashVars,
                   normalized_manifest_files, reconcileVars, outVars,
                   norm_in, canon_in, canon_out>>

NextNorm == NormalizeCall

SpecNorm == InitNorm /\ [][NextNorm]_vars

\* the positions that cut p into segments: before it, at each "\" or "/", after it
Cuts(p) == {0} \cup {i \in 1..Len(p) : IsSep(p[i])} \cup {Len(p) + 1}

NthCut(p, k) == CHOOSE c \in Cuts(p) : Cardinality({d \in Cuts(p) : d < c}) = k - 1

\* the segments of p after replacing "\" by "/" and splitting on "/"
Segments(p) ==
    [k \in 1..(Cardinality(Cuts(p)) - 1) |-> SubSeq(p, NthCut(p, k) + 1, NthCut(p, k + 1) - 1)]

KeptSegments(p) == SelectSeq(Segments(p), LAMBDA g : g # <<>> /\ g # <<".">>)

RECURSIVE SlashJoined(_)
SlashJoined(segs) ==
    IF segs = <<>> THEN <<>>
    ELSE IF Tail(segs) = <<>> THEN segs[1]
    ELSE segs[1] \o <<"/">> \o SlashJoined(Tail(segs))

\* C3: normalize_relative_path(p) fails exactly when a segment of p is "..";
\* otherwise it returns the segments that are neither empty nor ".", in order,
\* joined by "/": a\b, a/./b and a//b give a/b, and a returned path has no "\",
\* no empty segment, no "." segment and no ".." segment
C3_Normalize ==
    (tool = "normalize_relative_path" /\ pc = "done") =>
        /\ norm_out.ok <=> ~(\E k \in 1..Len(Segments(norm_in)) : Segments(norm_in)[k] = <<".", ".">>)
        /\ norm_out.ok =>
              /\ norm_out.path = SlashJoined(KeptSegments(norm_in))
              /\ \A i \in 1..Len(norm_out.path) : norm_out.path[i] # BS
              /\ norm_out.path # <<>> =>
                    \A k \in 1..Len(Segments(norm_out.path)) :
                        Segments(norm_out.path)[k] \notin {<<>>, <<".">>, <<".", ".">>}
        /\ norm_in \in {<<"a", BS, "b">>, <<"a", "/", ".", "/", "b">>, <<"a", "/", "/", "b">>}
              => norm_out = [ok |-> TRUE, path |-> <<"a", "/", "b">>]

C3_Witness ==
    /\ tool = "normalize_relative_path" /\ pc = "done"
    /\ norm_in = <<"a", "/", ".", "/", "b">>
    /\ norm_out = [ok |-> TRUE, path |-> <<"a", "/", "b">>]

(***************************************************************************)
(* Calls of the three canonical_json on {version, files} values inserted   *)
(* in two orders.                                                          *)
(***************************************************************************)
CanonKeys == {<<"a">>, <<"a", "b">>, <<"a", BS, "b">>, <<NONASCII>>}
CanonDicts == Dicts(CanonKeys, {<<"d">>, <<"e">>}, MaxDictLen)

\* the entries of d, inserted in the order p
Reordered(d, p) == [i \in 1..Len(d) |-> d[p[i]]]

\* {"version": v, "files": f} built in either member order
ManifestObject(v, f, files_first) ==
    IF files_first THEN <<<<KEY_FILES, JObj(f)>>, <<KEY_VERSION, JStr(v)>>>>
    ELSE UnsignedManifest(v, f)

NO_CANON == [create |-> <<>>, build |-> <<>>, validate |-> <<>>]

InitCanon ==
    /\ pc = "create_canonical_json" /\ tool = "canonical_json"
    /\ \E d \in CanonDicts : \E p \in Perms(1..Len(d)) : \E ff \in BOOLEAN :
          canon_in = <<UnsignedManifest(V1, d), ManifestObject(V1, Reordered(d, p), ff)>>
    /\ canon_out = <<NO_CANON, NO_CANON>>
    /\ norm_in = <<>> /\ norm_out = NO_NORM
    /\ BuilderIdle /\ ValidatorIdle

CanonUnchanged ==
    UNCHANGED <<tool, builderVars, builtVars, argVars, zipVars, loadVars, hashVars,
                normalized_manifest_files, reconcileVars, outVars,
                norm_in, norm_out, canon_in>>

CreateCanonicalJson ==
    /\ pc = "create_canonical_json"
    /\ canon_out' = [i \in 1..2 |-> [canon_out[i] EXCEPT !.create = create_canonical_json(canon_in[i])]]
    /\ pc' = "build_canonical_json"
    /\ CanonUnchanged

BuildCanonicalJson ==
    /\ pc = "build_canonical_json"
    /\ canon_out' = [i \in 1..2 |-> [canon_out[i] EXCEPT !.build = build_canonical_json(canon_in[i])]]
    /\ pc' = "validate_canonical_json"
    /\ CanonUnchanged

ValidateCanonicalJson ==
    /\ pc = "validate_canonical_json"
    /\ canon_out' = [i \in 1..2 |-> [canon_out[i] EXCEPT !.validate = validate_canonical_json(canon_in[i])]]
    /\ pc' = "done"
    /\ CanonUnchanged

NextCanon == CreateCanonicalJson \/ BuildCanonicalJson \/ ValidateCanonicalJson

SpecCanon == InitCanon /\ [][NextCanon]_vars

\* the files of the first object of canon_in
CanonFiles == canon_in[1][2][2].v

\* the keys of d in ascending code-point order
AscendingKeys(d) ==
    CHOOSE ks \in [1..Len(d) -> dict_keys(d)] :
        \A i, j \in 1..Len(d) : i < j => StrLess(ks[i], ks[j])

RECURSIVE Concat(_)
Concat(seqs) == IF seqs = <<>> THEN <<>> ELSE Head(seqs) \o Concat(Tail(seqs))

\* {"files":{<members by ascending key, comma separated>},"version":"<v>"}
ExpectedCanonical(v, d) ==
    LET ks == AscendingKeys(d)
        member(i) == (IF i = 1 THEN <<>> ELSE <<",">>)
                     \o json_string(ks[i], FALSE) \o <<":">>
                     \o json_string(dict_get(d, ks[i]), FALSE)
    IN utf8_encode(<<"{">> \o json_string(KEY_FILES, FALSE) \o <<":", "{">>
                   \o Concat([i \in 1..Len(d) |-> member(i)])
                   \o <<"}", ",">> \o json_string(KEY_VERSION, FALSE) \o <<":">>
                   \o json_string(V1, FALSE) \o <<"}">>)

\* C7: canonical_json gives the same bytes whatever the insertion order, with
\* the entries ordered by key, and the builders' and the validator's
\* canonical_json give identical bytes
C7_Canonical ==
    (tool = "canonical_json" /\ pc = "done") =>
        /\ canon_out[1].validate = canon_out[2].validate
        /\ canon_out[1].create = canon_out[2].create
        /\ canon_out[1].build = canon_out[2].build
        /\ canon_out[1].create = canon_out[1].validate
        /\ canon_out[1].build = canon_out[1].validate
        /\ canon_out[1].validate = ExpectedCanonical(V1, CanonFiles)

C7_Witness ==
    /\ tool = "canonical_json" /\ pc = "done"
    /\ Len(CanonFiles) = 3
    /\ canon_in[1] # canon_in[2]
    /\ canon_in[2][1][1] = KEY_FILES
    /\ canon_in[2][1][2].v[1][1] = <<"a", "b">> /\ canon_in[2][1][2].v[2][1] = <<"a", BS, "b">>
    /\ canon_out[1].validate = canon_out[2].create

(***************************************************************************)
(* The builders: create_manifest.py and build_manifest.py.                 *)
(* A payload directory is a function from the relative paths of its files  *)
(* (sequences of names) to their contents.                                 *)
(***************************************************************************)
Platforms == {"posix", "nt"}

\* os.sep
os_sep(pf) == IF pf = "nt" THEN BS ELSE "/"

N_A == <<"a">>
N_B == <<"b">>
N_A_BS_B == <<"a", BS, "b">>
N_UP_BS_A == <<".", ".", BS, "a">>

\* file names: "\" is an ordinary character of a POSIX name only
FileNames(pf) == IF pf = "nt" THEN {N_A, N_B} ELSE {N_A, N_B, N_A_BS_B, N_UP_BS_A}

PayloadPaths(pf) == {<<n>> : n \in FileNames(pf)} \cup {<<N_A, N_B>>}

IsProperPrefix(q, r) == Len(q) < Len(r) /\ SubSeq(r, 1, Len(q)) = q

\* no file is also a directory
IsTree(S) == \A q, r \in S : ~IsProperPrefix(q, r)

Contents == {"x", "y"}

Payloads(pf) ==
    UNION {[S -> Contents] :
              S \in {T \in SUBSET PayloadPaths(pf) : Cardinality(T) <= MaxPayload /\ IsTree(T)}}

\* hashlib.sha256 over the file's chunks, hexdigest
sha256_file(content) == sha256_hex(content)

\* file_path.relative_to(payload_dir).as_posix()
as_posix(segs, pf) == str_replace(str_join(os_sep(pf), segs), os_sep(pf), "/")

\* os.path.relpath(full, temp_dir)
relpath(segs, pf) == str_join(os_sep(pf), segs)

\* create_manifest.collect_hashes: files visited in the order of rglob
RECURSIVE collect_hashes(_, _, _, _)
collect_hashes(order, dir, pf, acc) ==
    IF order = <<>> THEN acc
    ELSE collect_hashes(Tail(order), dir, pf,
                        dict_set(acc, as_posix(Head(order), pf), sha256_file(dir[Head(order)])))

\* build_manifest.main, lines 68-74: files visited in the order of os.walk
RECURSIVE walk_hashes(_, _, _, _)
walk_hashes(order, dir, pf, acc) ==
    IF order = <<>> THEN acc
    ELSE walk_hashes(Tail(order), dir, pf,
                     dict_set(acc, str_replace(relpath(Head(order), pf), BS, "/"),
                              sha256_file(dir[Head(order)])))

InitBuild ==
    /\ tool \in {"create_manifest", "build_manifest"}
    /\ pc = "collect_hashes"
    /\ platform \in Platforms
    /\ payload \in Payloads(platform)
    /\ walk \in Perms(DOMAIN payload)
    /\ in_version = V1 /\ private_key = SIGNER
    /\ built_files = <<>> /\ built_signature = NO_SIG
    /\ doc = NO_DOC /\ public_key = SIGNER /\ fail_on_extra \in BOOLEAN
    /\ ValidatorLocalsInit /\ PureIdle

BuildUnchanged ==
    UNCHANGED <<tool, builderVars, public_key, fail_on_extra, zip_opened, loadVars, hashVars,
                normalized_manifest_files, reconcileVars, outVars, pureVars>>

\* create_manifest.main line 94 / build_manifest.main lines 68-74
CollectHashes ==
    /\ pc = "collect_hashes"
    /\ built_files' = IF tool = "create_manifest"
                      THEN collect_hashes(walk, payload, platform, <<>>)
                      ELSE walk_hashes(walk, payload, platform, <<>>)
    /\ pc' = "sign"
    /\ UNCHANGED <<built_signature, doc, zip>>
    /\ BuildUnchanged

\* create_manifest.main lines 96-104 / build_manifest.main lines 77-92
Sign ==
    /\ pc = "sign"
    /\ LET unsigned == UnsignedManifest(in_version, built_files)
           manifest_bytes == IF tool = "create_manifest" THEN create_canonical_json(unsigned)
                             ELSE build_canonical_json(unsigned)
       IN built_signature' = rsa_sign(private_key, manifest_bytes)
    /\ pc' = "write_manifest"
    /\ UNCHANGED <<built_files, doc, zip>>
    /\ BuildUnchanged

\* create_manifest.main lines 106-107 / build_manifest.main lines 94-99:
\* manifest.json as json.loads will return it
WriteManifest ==
    /\ pc = "write_manifest"
    /\ doc' = SignedDoc(in_version, built_files, built_signature)
    /\ pc' = "zip_payload"
    /\ UNCHANGED <<built_files, built_signature, zip>>
    /\ BuildUnchanged

\* the ZIP of the payload: one entry per file, named by its relative path with
\* "/" between the names, in any order
zip_of(dir, order) ==
    [i \in 1..Len(order) |-> [filename |-> str_join("/", order[i]), content |-> dir[order[i]]]]

ZipPayload ==
    /\ pc = "zip_payload"
    /\ \E order \in Perms(DOMAIN payload) : zip' = zip_of(payload, order)
    /\ pc' = "load_manifest"
    /\ UNCHANGED <<built_files, built_signature, doc>>
    /\ BuildUnchanged

ReadPayloadZip == HashZipMembers(zip)

NextBuild ==
    \/ CollectHashes
    \/ Sign
    \/ WriteManifest
    \/ ZipPayload
    \/ LoadManifest
    \/ VerifySignature
    \/ ReadPayloadZip
    \/ NormalizeManifest
    \/ Reconcile

SpecBuild == InitBuild /\ [][NextBuild]_vars

\* the relative path of a payload file as the platform spells it
NativePath(segs) == str_join(os_sep(platform), segs)

\* C8 as claimed: the manifest create_manifest builds and signs for a non-empty
\* payload validates against the ZIP of that payload and the matching key
C8_Original ==
    (tool = "create_manifest" /\ pc = "done" /\ DOMAIN payload # {}) => result = "OK"

\* no relative path has a ".." segment once "\" counts as a separator, and no
\* two relative paths normalize to the same path
PayloadPathsDistinct ==
    /\ \A f \in DOMAIN payload : ~HasDotDot(NativePath(f))
    /\ \A f, g \in DOMAIN payload : NormPath(NativePath(f)) = NormPath(NativePath(g)) => f = g

\* C8 amended: the round trip succeeds for every non-empty payload in which no
\* relative path has a ".." segment after replacing "\" by "/", and no two
\* relative paths normalize to the same path
C8_RoundTrip ==
    (tool = "create_manifest" /\ pc = "done" /\ DOMAIN payload # {} /\ PayloadPathsDistinct)
        => result = "OK" /\ warning = <<>>

C8_Witness ==
    /\ tool = "create_manifest" /\ pc = "done" /\ result = "OK"
    /\ platform = "posix" /\ Cardinality(DOMAIN payload) = 2
    /\ <<N_A_BS_B>> \in DOMAIN payload /\ zip_opened /\ entries_read = 2

\* C9 as claimed: every key a builder inserts is the normalized relative path
\* of a payload file: "/" is the only separator, there is no empty, "." or ".."
\* segment, and the keys are unique, on every platform
C9_KeysNormalized ==
    (tool \in {"create_manifest", "build_manifest"} /\ pc # "collect_hashes") =>
        /\ IsDict(built_files)
        /\ \A i \in 1..Len(built_files) :
              LET key == built_files[i][1]
              IN /\ \E f \in DOMAIN payload :
                        /\ normalize_relative_path(NativePath(f)).ok
                        /\ key = NormPath(NativePath(f))
                 /\ \A j \in 1..Len(key) : key[j] # BS
                 /\ \A k \in 1..Len(Segments(key)) :
                        Segments(key)[k] \notin {<<>>, <<".">>, <<".", ".">>}

====
